---------------------------- MODULE Spec2Model ----------------------------
(***************************************************************************)
(* Model of src/main.rs: polynomial multiplication by an iterative,        *)
(* bit-reversal-permuted Cooley-Tukey FFT.                                 *)
(*                                                                         *)
(* Arithmetic.  The program computes with Complex<f64>.  The model         *)
(* computes with exact arithmetic: every value the program can produce     *)
(* from integer inputs is an element of Q(z), z = cos(2*pi/RootOrder) +    *)
(* i*sin(2*pi/RootOrder), with a power-of-two denominator.  Such a number  *)
(* is held as [num, den]: num the integer coordinates on the basis         *)
(* 1, z, ..., z^(Half-1) (z^Half = -1), den the common denominator, in     *)
(* lowest terms.  The basis is linearly independent over Q, so two values  *)
(* are equal as complex numbers exactly when their records are equal.      *)
(* Floating-point rounding is not modelled.                                *)
(***************************************************************************)
EXTENDS Integers, Sequences, FiniteSets, TLC

(***************************************************************************)
(* Bounds of the model.                                                    *)
(***************************************************************************)
\* longest operand (number of coefficients) given to mul
MaxLen == 3
\* direct transform calls get the buffers of every length 0 .. 2^MaxLog, and
\* some of length 2^(MaxLog + 1)
MaxLog == 2

\* usize is 64 bits wide: 8 * size_of_val(&n)
WordBits == 64

Max(x, y) == IF x >= y THEN x ELSE y
Min(x, y) == IF x <= y THEN x ELSE y

(***************************************************************************)
(* usize helpers of the standard library, as the code uses them.           *)
(***************************************************************************)
RECURSIVE PowerOfTwoFrom(_, _)
PowerOfTwoFrom(n, p) == IF p >= n THEN p ELSE PowerOfTwoFrom(n, 2 * p)

\* next_power_of_two with the alignment left out
next_power_of_two_Unaligned(n) == n

\* usize::next_power_of_two: the smallest power of two >= n (1 for n = 0)
next_power_of_two(n) == PowerOfTwoFrom(n, 1)

\* usize::is_power_of_two: false for 0
is_power_of_two(n) == n >= 1 /\ PowerOfTwoFrom(n, 1) = n

RECURSIVE trailing_zeros(_)
\* usize::trailing_zeros: the word width for 0
trailing_zeros(n) ==
    IF n = 0 THEN WordBits
    ELSE IF n % 2 = 1 THEN 0 ELSE 1 + trailing_zeros(n \div 2)

\* the coefficient lists of main
MainA == <<7, 0 - 1, 4, 3>>
MainB == <<3, 0 - 2, 0 - 4, 7>>

\* the order of the root of unity the number representation is built on:
\* large enough for every transform length the bounds allow
RootOrder ==
    Max(PowerOfTwoFrom(Len(MainA) + Len(MainB) - 1, 1),
        Max(PowerOfTwoFrom(2 * MaxLen - 1, 1), 2 ^ (MaxLog + 1)))
Half == RootOrder \div 2

(***************************************************************************)
(* Complex<f64>, in exact arithmetic.                                      *)
(***************************************************************************)
AllEven(num) == \A k \in 1..Half : num[k] % 2 = 0

RECURSIVE Normalize(_, _)
Normalize(num, den) ==
    IF den > 1 /\ AllEven(num)
    THEN Normalize([k \in 1..Half |-> num[k] \div 2], den \div 2)
    ELSE [num |-> num, den |-> den]

\* Complex::new(re, im) for integers re, im: i = z^(Half/2)
ComplexNew(re, im) ==
    [num |-> [k \in 1..Half |-> IF k = 1 THEN re
                                ELSE IF k = 1 + Half \div 2 THEN im ELSE 0],
     den |-> 1]

\* Complex::from(re): the imaginary part is zero
ComplexFrom(re) == ComplexNew(re, 0)

\* Complex::default(): 0 + 0i
ComplexDefault == ComplexNew(0, 0)

\* x + y
CAdd(x, y) ==
    LET d == Max(x.den, y.den)
    IN Normalize([k \in 1..Half |->
                     x.num[k] * (d \div x.den) + y.num[k] * (d \div y.den)], d)

\* x - y
CSub(x, y) ==
    LET d == Max(x.den, y.den)
    IN Normalize([k \in 1..Half |->
                     x.num[k] * (d \div x.den) - y.num[k] * (d \div y.den)], d)

RECURSIVE MulCoord(_, _, _, _)
\* coordinate k (0-based) of x*y, summing over i = from .. Half-1:
\* z^i * z^j lands on z^(i+j) or, past Half, on -z^(i+j-Half)
MulCoord(x, y, k, from) ==
    IF from >= Half THEN 0
    ELSE (IF from <= k
          THEN x[from + 1] * y[k - from + 1]
          ELSE 0 - x[from + 1] * y[k + Half - from + 1])
         + MulCoord(x, y, k, from + 1)

\* x * y
CMul(x, y) ==
    Normalize([k \in 1..Half |-> MulCoord(x.num, y.num, k - 1, 0)], x.den * y.den)

\* x / n for a real n >= 1
CDivReal(x, n) == Normalize(x.num, x.den * n)

\* RootOfUnity with the sine negated: the root of the opposite angle
RootOfUnity_Clockwise(step, sign) ==
    LET e == ((RootOrder - sign * (RootOrder \div step)) + RootOrder) % RootOrder
    IN [num |-> [k \in 1..Half |-> IF e < Half
                                   THEN (IF k = e + 1 THEN 1 ELSE 0)
                                   ELSE (IF k = e - Half + 1 THEN 0 - 1 ELSE 0)],
        den |-> 1]

\* Complex::new(part.cos(), part.sin()) for part = sign * 2 * PI / step,
\* step a power of two dividing RootOrder: z^(sign * RootOrder / step)
RootOfUnity(step, sign) ==
    LET e == ((sign * (RootOrder \div step)) + RootOrder) % RootOrder
    IN [num |-> [k \in 1..Half |-> IF e < Half
                                   THEN (IF k = e + 1 THEN 1 ELSE 0)
                                   ELSE (IF k = e - Half + 1 THEN 0 - 1 ELSE 0)],
        den |-> 1]

(***************************************************************************)
(* Bit reversal of a machine word.  A word is its sequence of WordBits     *)
(* bits, least significant first.                                          *)
(***************************************************************************)
RECURSIVE ShiftedDown(_, _)
\* v with its k low bits dropped; the quotient is taken in steps of 2^30 so
\* that no intermediate power leaves the range of TLC's 32-bit integers
ShiftedDown(v, k) ==
    IF k <= 30 THEN v \div 2 ^ k ELSE ShiftedDown(v \div 2 ^ 30, k - 30)

\* the w low bits of v
ToBits(v, w) == [k \in 1..w |-> ShiftedDown(v, k - 1) % 2]

RECURSIVE SumOfPowers(_)
SumOfPowers(S) ==
    IF S = {} THEN 0
    ELSE LET k == CHOOSE e \in S : TRUE
         IN 2 ^ k + SumOfPowers(S \ {k})

\* the number a word holds: the sum of 2^(k-1) over its set bits k
FromBits(bits) == SumOfPowers({k - 1 : k \in {i \in 1..Len(bits) : bits[i] = 1}})

\* usize::reverse_bits
reverse_bits(bits) == [k \in 1..WordBits |-> bits[WordBits + 1 - k]]

\* bits >> k for 0 <= k < WordBits: zeros come in at the top
ShiftRight(bits, k) ==
    [i \in 1..WordBits |-> IF i + k <= WordBits THEN bits[i + k] ELSE 0]

\* 8 * size_of_val(&n) as u32 - log
ShiftAmount(log) == WordBits - log

\* `>>` by WordBits or more is an overflow: a panic where overflow checks are
\* compiled in (debug profile), a shift by the amount modulo WordBits where
\* they are not (release profile)
ShiftOverflows(log) == ShiftAmount(log) >= WordBits

\* x.reverse_bits() >> (8 * size_of_val(&n) as u32 - log), when it does not panic
ReversedIndex(v, log) ==
    FromBits(ShiftRight(reverse_bits(ToBits(v, WordBits)), ShiftAmount(log) % WordBits))

RECURSIVE SwapPairsFrom_BothOrders(_, _, _)
\* SwapPairsFrom with the filter a != b: every pair is met from both ends
SwapPairsFrom_BothOrders(v, n, log) ==
    IF v >= n THEN <<>>
    ELSE LET j == ReversedIndex(v, log)
         IN (IF v # j THEN << <<v, j>> >> ELSE <<>>)
            \o SwapPairsFrom_BothOrders(v + 1, n, log)

RECURSIVE SwapPairsFrom(_, _, _)
SwapPairsFrom(v, n, log) ==
    IF v >= n THEN <<>>
    ELSE LET j == ReversedIndex(v, log)
         IN (IF v < j THEN << <<v, j>> >> ELSE <<>>) \o SwapPairsFrom(v + 1, n, log)

\* (0..n).map(|x| (x, rev(x))).filter(|(a, b)| a < b): the pairs, in order
SwapPairs(n, log) == SwapPairsFrom(0, n, log)

\* Swap as an assignment input[j] = input[i]: the value at j is lost
Swap_Overwrite(input, i, j) ==
    [k \in 1..Len(input) |-> IF k = j + 1 THEN input[i + 1] ELSE input[k]]

\* input.swap(i, j), 0-based indices
Swap(input, i, j) ==
    [k \in 1..Len(input) |-> IF k = i + 1 THEN input[j + 1]
                             ELSE IF k = j + 1 THEN input[i + 1] ELSE input[k]]

RECURSIVE ApplySwaps(_, _)
\* .for_each(|(i, j)| input.swap(i, j)); swap panics on an index out of range
ApplySwaps(input, pairs) ==
    IF pairs = <<>> THEN [buf |-> input, panic |-> "none"]
    ELSE LET i == Head(pairs)[1]
             j == Head(pairs)[2]
         IN IF j >= Len(input) THEN [buf |-> input, panic |-> "index"]
            ELSE ApplySwaps(Swap(input, i, j), Tail(pairs))

\* Polynomial::shuffle_coeffs.  checks: the build has overflow checks.
shuffle_coeffs(input, n, log, checks) ==
    IF n > 0 /\ checks /\ ShiftOverflows(log)
    THEN [buf |-> input, panic |-> "shift"]
    ELSE ApplySwaps(input, SwapPairs(n, log))

(***************************************************************************)
(* The butterfly passes of Polynomial::evaluate.                           *)
(***************************************************************************)
RECURSIVE Successors(_, _, _)
\* successors(Some(start), |prev| Some(prev * first)).take(count)
Successors(start, first, count) ==
    IF count = 0 THEN <<>>
    ELSE <<start>> \o Successors(CMul(start, first), first, count - 1)

\* Butterfly without the twiddle factor
Butterfly_NoTwiddle(ret, i, j, step, num) ==
    LET lo == i + j + 1
        hi == i + j + step \div 2 + 1
        a == ret[lo]
        b == ret[hi]
    IN [k \in 1..Len(ret) |-> IF k = lo THEN CAdd(a, b)
                              ELSE IF k = hi THEN CSub(a, b) ELSE ret[k]]

\* the body of the inner loop for block start i and offset j
Butterfly(ret, i, j, step, num) ==
    LET lo == i + j + 1
        hi == i + j + step \div 2 + 1
        a == ret[lo]
        b == CMul(num, ret[hi])
    IN [k \in 1..Len(ret) |-> IF k = lo THEN CAdd(a, b)
                              ELSE IF k = hi THEN CSub(a, b) ELSE ret[k]]

RECURSIVE Block(_, _, _, _, _)
\* for (num, j) in iter.clone().zip(0..step / 2), from offset j on
Block(ret, i, j, step, iter) ==
    IF j >= Min(Len(iter), step \div 2) THEN ret
    ELSE Block(Butterfly(ret, i, j, step, iter[j + 1]), i, j + 1, step, iter)

RECURSIVE Blocks(_, _, _, _, _)
\* for i in (0..n).step_by(step), from block start i on
Blocks(ret, i, n, step, iter) ==
    IF i >= n THEN ret
    ELSE Blocks(Block(ret, i, 0, step, iter), i + step, n, step, iter)

RECURSIVE Passes(_, _, _, _, _)
\* for step in (1..).map(|x| 1 << x).take(log), from the pass-th pass on
Passes(ret, pass, n, log, sign) ==
    IF pass > log THEN ret
    ELSE LET step == 2 ^ pass
             first == RootOfUnity(step, sign)
             iter == Successors(ComplexNew(1, 0), first, n \div 2)
         IN Passes(Blocks(ret, 0, n, step, iter), pass + 1, n, log, sign)

\* evaluate without the second shuffle_coeffs: the caller's buffer stays permuted
evaluate_NoRestore(input, sign, checks) ==
    LET n == Len(input)
    IN IF ~is_power_of_two(n)
       THEN [ret |-> <<>>, input |-> input, panic |-> "assert"]
       ELSE LET log == trailing_zeros(n)
                first == shuffle_coeffs(input, n, log, checks)
            IN IF first.panic # "none"
               THEN [ret |-> <<>>, input |-> first.buf, panic |-> first.panic]
               ELSE [ret |-> Passes(first.buf, 1, n, log, sign),
                     input |-> first.buf, panic |-> "none"]

\* evaluate without the assertion
evaluate_NoAssert(input, sign, checks) ==
    LET n == Len(input)
        log == trailing_zeros(n)
        first == shuffle_coeffs(input, n, log, checks)
    IN IF first.panic # "none"
       THEN [ret |-> <<>>, input |-> first.buf, panic |-> first.panic]
       ELSE LET ret == Passes(first.buf, 1, n, log, sign)
                second == shuffle_coeffs(first.buf, n, log, checks)
            IN [ret |-> IF second.panic = "none" THEN ret ELSE <<>>,
                input |-> second.buf, panic |-> second.panic]

\* Polynomial::evaluate: [ret: the returned sequence, input: the caller's
\* buffer when the call ends, panic: "none" or why the call panicked]
evaluate(input, sign, checks) ==
    LET n == Len(input)
    IN IF ~is_power_of_two(n)
       THEN [ret |-> <<>>, input |-> input, panic |-> "assert"]
       ELSE LET log == trailing_zeros(n)
                first == shuffle_coeffs(input, n, log, checks)
            IN IF first.panic # "none"
               THEN [ret |-> <<>>, input |-> first.buf, panic |-> first.panic]
               ELSE LET ret == Passes(first.buf, 1, n, log, sign)
                        second == shuffle_coeffs(first.buf, n, log, checks)
                    IN [ret |-> IF second.panic = "none" THEN ret ELSE <<>>,
                        input |-> second.buf, panic |-> second.panic]

\* Polynomial::fft
fft(input, checks) == evaluate(input, 1, checks)

\* inverse_fft without the division by n
inverse_fft_NoDivide(input, checks) == evaluate(input, 0 - 1, checks)

\* Polynomial::inverse_fft
inverse_fft(input, checks) ==
    LET e == evaluate(input, 0 - 1, checks)
        n == Len(e.ret)
    IN [ret |-> [k \in 1..n |-> CDivReal(e.ret[k], n)],
        input |-> e.input, panic |-> e.panic]

(***************************************************************************)
(* Polynomial::mul.                                                        *)
(***************************************************************************)
\* Vec::resize_with(new_len, Default::default)
ResizeWith(v, new_len) ==
    [k \in 1..new_len |-> IF k <= Len(v) THEN v[k] ELSE ComplexDefault]

\* truncate that keeps everything
Truncate_Nothing(v, len) == v

\* Vec::truncate(len): no effect when len >= the length
Truncate(v, len) == IF len < Len(v) THEN SubSeq(v, 1, len) ELSE v

\* self_points.iter().zip(rhs_points.iter()).map(|(x, y)| x * y).collect()
ZipMul(xs, ys) == [k \in 1..Min(Len(xs), Len(ys)) |-> CMul(xs[k], ys[k])]

\* what a call of mul leaves behind: the returned coefficients, both operands,
\* why it panicked ("none" when it returned) and the lengths of the buffers
\* it handed to evaluate, in call order
MulOutcome(ret, self, rhs, panic, calls) ==
    [ret |-> ret, self |-> self, rhs |-> rhs, panic |-> panic, calls |-> calls]

\* Polynomial::mul.  With both operands empty n + m - 1 underflows: a panic
\* with overflow checks; without them it wraps to usize::MAX, whose
\* next_power_of_two wraps to 0, and evaluate's assertion fails on the
\* empty buffer.
mul(self, rhs, checks) ==
    LET n == Len(self)
        m == Len(rhs)
    IN IF n + m = 0
       THEN (IF checks THEN MulOutcome(<<>>, self, rhs, "subtract", <<>>)
             ELSE MulOutcome(<<>>, self, rhs, "assert", <<0>>))
       ELSE
       LET new_size == n + m - 1
           new_aligned_size == next_power_of_two(new_size)
           self1 == ResizeWith(self, new_aligned_size)
           rhs1 == ResizeWith(rhs, new_aligned_size)
           self_points == fft(self1, checks)
       IN IF self_points.panic # "none"
          THEN MulOutcome(<<>>, self_points.input, rhs1, self_points.panic,
                          <<Len(self1)>>)
          ELSE
          LET rhs_points == fft(rhs1, checks)
          IN IF rhs_points.panic # "none"
             THEN MulOutcome(<<>>, self_points.input, rhs_points.input,
                             rhs_points.panic, <<Len(self1), Len(rhs1)>>)
             ELSE
             LET new_points == ZipMul(self_points.ret, rhs_points.ret)
                 new_coeffs == inverse_fft(new_points, checks)
                 calls == <<Len(self1), Len(rhs1), Len(new_points)>>
             IN IF new_coeffs.panic # "none"
                THEN MulOutcome(<<>>, self_points.input, rhs_points.input,
                                new_coeffs.panic, calls)
                ELSE MulOutcome(Truncate(new_coeffs.ret, new_size),
                                Truncate(self_points.input, n),
                                Truncate(rhs_points.input, m), "none", calls)

(***************************************************************************)
(* Inputs.                                                                 *)
(***************************************************************************)
RECURSIVE SeqsUpTo(_, _)
\* the sequences over S of length 0 .. len
SeqsUpTo(S, len) ==
    IF len = 0 THEN {<<>>}
    ELSE LET shorter == SeqsUpTo(S, len - 1)
         IN shorter \cup {Append(s, v) : s \in {t \in shorter : Len(t) = len - 1}, v \in S}

\* real coefficients a polynomial is built from
CoefsA == {0 - 1, 2}
CoefsB == {0, 3}

\* impl From<Vec<f64>> for Polynomial
PolynomialFrom(input) == [k \in 1..Len(input) |-> ComplexFrom(input[k])]

\* the operands: every coefficient list up to MaxLen, and the two of main
OperandsA == SeqsUpTo(CoefsA, MaxLen) \cup {MainA}
OperandsB == SeqsUpTo(CoefsB, MaxLen) \cup {MainB}

\* complex samples of the buffers handed to the transforms directly
Samples == {ComplexNew(1, 0), ComplexNew(0 - 1, 2)}

\* a buffer whose length, 6, is not a power of two
SixSamples == [k \in 1..6 |-> ComplexNew(k, 0 - k)]

\* buffers of length 2^(MaxLog + 1): one sample differs from the others
LongBuffers ==
    {[k \in 1..(2 ^ (MaxLog + 1)) |->
         IF k = p THEN ComplexNew(0 - 1, 2) ELSE ComplexNew(1, 0)] :
       p \in 1..(2 ^ (MaxLog + 1))}

Buffers == SeqsUpTo(Samples, 2 ^ MaxLog) \cup LongBuffers \cup {SixSamples}

(***************************************************************************)
(* State.                                                                  *)
(***************************************************************************)
VARIABLES
    overflow_checks, \* the build profile: overflow checks compiled in or not
    a, b,            \* the coefficient buffers of the two polynomials of main
    product,         \* the coefficients of the polynomial mul returned
    buf,             \* a buffer handed to fft / inverse_fft / shuffle_coeffs
    points,          \* the sequence fft returned
    coeffs,          \* the sequence inverse_fft returned
    last,            \* the last operation called
    pc,              \* "ready", "returned" or "panicked" (the process is gone)
    panic,           \* why it panicked
    calls,           \* lengths of the buffers the last mul handed to evaluate
    arg,             \* the input buffer(s) of the last call, as they were before it
    origin           \* the input of the fft call that `points` came from

vars == <<overflow_checks, a, b, product, buf, points, coeffs, last, pc, panic,
          calls, arg, origin>>

Status(p) == IF p = "none" THEN "returned" ELSE "panicked"

\* main: two polynomials are built, nothing has been called
Init ==
    /\ overflow_checks \in BOOLEAN
    /\ \E x \in OperandsA, y \in OperandsB :
          /\ a = PolynomialFrom(x)
          /\ b = PolynomialFrom(y)
    /\ product = <<>>
    /\ buf = <<>>
    /\ points = <<>>
    /\ coeffs = <<>>
    /\ last = "none"
    /\ pc = "ready"
    /\ panic = "none"
    /\ calls = <<>>
    /\ arg = <<>>
    /\ origin = <<>>

\* a.mul(&mut b)
Mul ==
    /\ pc # "panicked"
    /\ \E r \in {mul(a, b, overflow_checks)} :
          /\ a' = r.self
          /\ b' = r.rhs
          /\ product' = r.ret
          /\ panic' = r.panic
          /\ pc' = Status(r.panic)
          /\ calls' = r.calls
    /\ arg' = <<a, b>>
    /\ last' = "mul"
    /\ UNCHANGED <<overflow_checks, buf, points, coeffs, origin>>

Next == Mul

Spec == Init /\ [][Next]_vars

(***************************************************************************)
(* The transform engine called directly (the calls main has commented out).*)
(***************************************************************************)
InitTransform ==
    /\ overflow_checks \in BOOLEAN
    /\ buf \in Buffers
    /\ a = <<>>
    /\ b = <<>>
    /\ product = <<>>
    /\ points = <<>>
    /\ coeffs = <<>>
    /\ last = "none"
    /\ pc = "ready"
    /\ panic = "none"
    /\ calls = <<>>
    /\ arg = <<>>
    /\ origin = <<>>

\* let mut a_points = Polynomial::fft(&mut buf)
Fft ==
    /\ pc # "panicked"
    /\ \E r \in {fft(buf, overflow_checks)} :
          /\ buf' = r.input
          /\ points' = r.ret
          /\ panic' = r.panic
          /\ pc' = Status(r.panic)
    /\ arg' = buf
    /\ origin' = buf
    /\ coeffs' = <<>>
    /\ last' = "fft"
    /\ UNCHANGED <<overflow_checks, a, b, product, calls>>

\* let a_coeffs = Polynomial::inverse_fft(&mut a_points)
InverseFftPoints ==
    /\ pc # "panicked"
    /\ last = "fft"
    /\ \E r \in {inverse_fft(points, overflow_checks)} :
          /\ points' = r.input
          /\ coeffs' = r.ret
          /\ panic' = r.panic
          /\ pc' = Status(r.panic)
    /\ arg' = points
    /\ last' = "inverse_fft_points"
    /\ UNCHANGED <<overflow_checks, a, b, product, buf, calls, origin>>

\* Polynomial::inverse_fft(&mut buf)
InverseFft ==
    /\ pc # "panicked"
    /\ \E r \in {inverse_fft(buf, overflow_checks)} :
          /\ buf' = r.input
          /\ coeffs' = r.ret
          /\ panic' = r.panic
          /\ pc' = Status(r.panic)
    /\ arg' = buf
    /\ points' = <<>>
    /\ origin' = <<>>
    /\ last' = "inverse_fft"
    /\ UNCHANGED <<overflow_checks, a, b, product, calls>>

\* Polynomial::shuffle_coeffs(&mut buf, n, log), with the n and log evaluate
\* passes: n the length, a power of two, and log its trailing_zeros
Shuffle ==
    /\ pc # "panicked"
    /\ is_power_of_two(Len(buf))
    /\ \E r \in {shuffle_coeffs(buf, Len(buf), trailing_zeros(Len(buf)),
                                 overflow_checks)} :
          /\ buf' = r.buf
          /\ panic' = r.panic
          /\ pc' = Status(r.panic)
    /\ arg' = buf
    /\ points' = <<>>
    /\ coeffs' = <<>>
    /\ origin' = <<>>
    /\ last' = "shuffle_coeffs"
    /\ UNCHANGED <<overflow_checks, a, b, product, calls>>

NextTransform == Fft \/ InverseFftPoints \/ InverseFft \/ Shuffle

SpecTransform == InitTransform /\ [][NextTransform]_vars

(***************************************************************************)
(* Reference definitions the properties are stated with.  None of them     *)
(* is used by the model of the code above.                                 *)
(***************************************************************************)
\* the real number a sample built by Complex::from holds
RealPart(c) == c.num[1]

RECURSIVE ConvolutionSum(_, _, _, _)
\* sum over i = from .. Len(A)-1 of A[i] * B[k - i] (0-based), B[j] = 0 outside B
ConvolutionSum(A, B, k, from) ==
    IF from >= Len(A) THEN 0
    ELSE (IF k - from >= 0 /\ k - from < Len(B)
          THEN RealPart(A[from + 1]) * RealPart(B[k - from + 1])
          ELSE 0)
         + ConvolutionSum(A, B, k, from + 1)

\* the naive discrete convolution of two real coefficient sequences
Convolution(A, B) ==
    [k \in 1..(Len(A) + Len(B) - 1) |-> ComplexFrom(ConvolutionSum(A, B, k - 1, 0))]

\* z^e, for any integer e >= 0
UnitPower(e) ==
    LET r == e % RootOrder
    IN [num |-> [k \in 1..Half |-> IF r < Half
                                   THEN (IF k = r + 1 THEN 1 ELSE 0)
                                   ELSE (IF k = r - Half + 1 THEN 0 - 1 ELSE 0)],
        den |-> 1]

RECURSIVE DftSum(_, _, _)
\* sum over t = from .. n-1 of x[t] * w^(k*t), w = cos(2*pi/n) + i*sin(2*pi/n)
DftSum(xs, k, from) ==
    IF from >= Len(xs) THEN ComplexNew(0, 0)
    ELSE CAdd(CMul(xs[from + 1], UnitPower((RootOrder \div Len(xs)) * k * from)),
              DftSum(xs, k, from + 1))

\* the discrete Fourier transform of xs, angle sign +1
Dft(xs) == [k \in 1..Len(xs) |-> DftSum(xs, k - 1, 0)]

RECURSIVE BitReversal(_, _)
\* the log-bit reversal of i: bit k of i becomes bit log-1-k
BitReversal(i, log) ==
    IF log = 0 THEN 0
    ELSE (i % 2) * 2 ^ (log - 1) + BitReversal(i \div 2, log - 1)

\* p is the smallest power of two >= t
SmallestPowerOfTwoAtLeast(p, t) ==
    /\ \E e \in 0..WordBits : e < 31 /\ p = 2 ^ e
    /\ p >= t
    /\ \A q \in 1..(p - 1) : (\E e \in 0..WordBits : e < 31 /\ q = 2 ^ e) => q < t

Returned(op) == last = op /\ pc = "returned"

\* the last call was mul on two non-empty operands
MulOnNonEmpty == last = "mul" /\ Len(arg[1]) >= 1 /\ Len(arg[2]) >= 1

\* the product of the two polynomials of main
MainProduct == <<21, 0 - 17, 0 - 14, 54, 0 - 29, 16, 21>>

\* the product the specification expects for the two polynomials of main
MainProductExpected == <<21, 0 - 17, 0 - 40, 20, 29, 0 - 22, 21>>

CalledOnMain == arg = <<PolynomialFrom(MainA), PolynomialFrom(MainB)>>

(***************************************************************************)
(* Properties.                                                             *)
(***************************************************************************)

\* C1 (as amended): whenever mul returns on non-empty operands, the returned
\* coefficients are the naive convolution of the operands, component by
\* component; for A = [7,-1,4,3], B = [3,-2,-4,7] that is
\* [21,-17,-14,54,-29,16,21].
C1_MulIsConvolution ==
    (Returned("mul") /\ MulOnNonEmpty) =>
        /\ product = Convolution(arg[1], arg[2])
        /\ CalledOnMain => product = PolynomialFrom(MainProduct)

\* C1 as stated: the returned coefficients are the convolution, and for the
\* operands of main they are [21,-17,-40,20,29,-22,21].
C1_AsStated ==
    (Returned("mul") /\ MulOnNonEmpty) =>
        /\ product = Convolution(arg[1], arg[2])
        /\ CalledOnMain => product = PolynomialFrom(MainProductExpected)

C1_Witness ==
    Returned("mul") /\ CalledOnMain /\ product = PolynomialFrom(MainProduct)

\* C2: whenever fft returns on a buffer x of length n, it returns exactly n
\* values, and value k is the sum over t of x[t] * w^(k*t) with
\* w = cos(2*pi/n) + i*sin(2*pi/n), for k = 0 .. n-1 in this order.
C2_FftIsDft ==
    Returned("fft") => (Len(points) = Len(arg) /\ points = Dft(arg))

C2_Witness ==
    /\ Returned("fft")
    /\ Len(arg) = 4
    /\ points = Dft(arg)
    /\ \E k \in 1..4 : points[k] # arg[k]

\* C3: round trip: whenever inverse_fft returns on the sequence fft returned
\* for a buffer, it returns that buffer, component by component.
C3_RoundTrip ==
    Returned("inverse_fft_points") => coeffs = origin

C3_Witness ==
    /\ Returned("inverse_fft_points")
    /\ Len(origin) = 4
    /\ coeffs = origin
    /\ arg # origin

\* C4: whenever mul returns on operands of lengths n >= 1 and m >= 1, the
\* inverse transform was given padded_len >= n + m - 1 samples and the
\* returned polynomial has exactly n + m - 1 coefficients.
C4_ProductLength ==
    (Returned("mul") /\ MulOnNonEmpty) =>
        /\ Len(product) = Len(arg[1]) + Len(arg[2]) - 1
        /\ calls[3] >= Len(arg[1]) + Len(arg[2]) - 1

C4_Witness ==
    /\ Returned("mul")
    /\ Len(arg[1]) = 2
    /\ Len(arg[2]) = 2
    /\ Len(product) = 3
    /\ calls[3] = 4

\* C5 (as amended): whenever mul returns on non-empty operands, both operands
\* have their original lengths and their original value at every index.
C5_OperandsRestored ==
    (Returned("mul") /\ MulOnNonEmpty) => (a = arg[1] /\ b = arg[2])

\* C5 as stated: whenever mul returns, both operands are as before the call.
C5_AsStated ==
    Returned("mul") => (a = arg[1] /\ b = arg[2])

C5_Witness ==
    /\ Returned("mul")
    /\ Len(arg[1]) = 3
    /\ Len(arg[2]) = 2
    /\ calls = <<4, 4, 4>>
    /\ a = arg[1]
    /\ b = arg[2]

\* C6: whenever fft or inverse_fft returns, the caller's buffer holds at
\* every index the value it held before the call.
C6_BufferUnchanged ==
    /\ (Returned("fft") \/ Returned("inverse_fft")) => buf = arg
    /\ Returned("inverse_fft_points") => points = arg

C6_Witness ==
    /\ Returned("fft")
    /\ Len(arg) = 4
    /\ arg[2] # arg[3]
    /\ buf = arg

\* C7: in a call of mul on operands of lengths n >= 1 and m >= 1, every
\* buffer handed to evaluate has length padded_len, the smallest power of
\* two >= n + m - 1; the power-of-two assertion does not fail; and a call
\* that returns has made three transform calls.
C7_MulMeetsPrecondition ==
    MulOnNonEmpty =>
        /\ panic # "assert"
        /\ Len(calls) >= 1
        /\ \A k \in 1..Len(calls) :
              SmallestPowerOfTwoAtLeast(calls[k], Len(arg[1]) + Len(arg[2]) - 1)
        /\ pc = "returned" => Len(calls) = 3

C7_Witness ==
    /\ Returned("mul")
    /\ Len(arg[1]) = 3
    /\ Len(arg[2]) = 3
    /\ calls = <<8, 8, 8>>

\* C8: fft or inverse_fft on a buffer whose length is not a power of two
\* halts at the precondition check: nothing is returned, and the buffer is
\* as it was before the call.
C8_RejectsNonPowerOfTwo ==
    (last \in {"fft", "inverse_fft"} /\ ~(\E e \in 0..30 : Len(arg) = 2 ^ e)) =>
        /\ pc = "panicked"
        /\ panic = "assert"
        /\ points = <<>>
        /\ coeffs = <<>>
        /\ buf = arg

C8_Witness ==
    /\ last = "fft"
    /\ arg = SixSamples
    /\ panic = "assert"
    /\ buf = SixSamples

\* C9 as stated: fft and inverse_fft on a buffer of power-of-two length
\* n >= 1, and mul on non-empty operands, run to completion.
C9_AsStated ==
    /\ MulOnNonEmpty => pc = "returned"
    /\ (last \in {"fft", "inverse_fft", "inverse_fft_points"}
          /\ \E e \in 0..30 : Len(arg) = 2 ^ e) => pc = "returned"

\* C10: for a power of two n >= 2 with log = log2(n), shuffle_coeffs leaves
\* buffer[i] equal to the original buffer[rev(i)], rev the log-bit reversal;
\* the index it computes is rev(i), always in [0, n); and the swaps it makes
\* are exactly the pairs (i, rev(i)) with i < rev(i), each once.
C10_ShuffleIsBitReversal ==
    (last = "shuffle_coeffs" /\ Len(arg) >= 2) =>
        LET n == Len(arg)
            log == CHOOSE e \in 1..30 : 2 ^ e = n
            pairs == SwapPairs(n, log)
        IN /\ pc = "returned"
           /\ Len(buf) = n
           /\ \A i \in 0..(n - 1) :
                 /\ ReversedIndex(i, log) = BitReversal(i, log)
                 /\ ReversedIndex(i, log) \in 0..(n - 1)
                 /\ buf[i + 1] = arg[BitReversal(i, log) + 1]
           /\ \A k \in 1..Len(pairs) :
                 /\ pairs[k][1] < pairs[k][2]
                 /\ pairs[k][2] = BitReversal(pairs[k][1], log)
                 /\ \A l \in 1..Len(pairs) : pairs[l] = pairs[k] => l = k
           /\ \A i \in 0..(n - 1) :
                 i < BitReversal(i, log) =>
                    \E k \in 1..Len(pairs) : pairs[k] = <<i, BitReversal(i, log)>>

C10_Witness ==
    /\ Returned("shuffle_coeffs")
    /\ Len(arg) = 4
    /\ arg[2] # arg[3]
    /\ buf[2] = arg[3]
    /\ buf[3] = arg[2]

=============================================================================
